---- MODULE Spec2Model ----
(***************************************************************************)
(* A model of robotframework_libtoc/libtoc.py: the config parser, the      *)
(* per-directory generation pass, the navigation tree assembler, the two   *)
(* template renderers, the TOC orchestration and the exit status of main.  *)
(* Strings are sequences of one-character strings.                         *)
(***************************************************************************)
EXTENDS Integers, Sequences, FiniteSets, TLC

VARIABLES
    \* read_config
    config_lines, line_idx, section_to_add, sections, cfg_pc,
    \* create_docs_for_dir
    config_file, doc_config, docs_pc, decl_idx, pattern_idx, match_idx, packages,
    broken_files, broken_packages, broken_libs, calls,
    \* one lib of create_docs_for_dir
    lib, lib_str_with_resolved_vars, lib_call, lib_pc,
    \* main
    main_pc, dirs_done, children_done, total_broken_files, total_broken_packages,
    total_broken_libs, output_dir_exists, failure_seen, toc_created, exit_status,
    \* toc and homepage
    html_template, render_op, rendered,
    \* add_files_from_folder and create_toc
    fs, nav_pc, result_str, toc_pc, all_docs, doc_idx, doc_files_links, steps

cfgVars == <<config_lines, line_idx, section_to_add, sections, cfg_pc>>

docsVars == <<config_file, doc_config, docs_pc, decl_idx, pattern_idx, match_idx, packages,
              broken_files, broken_packages, broken_libs, calls>>

libVars == <<lib, lib_str_with_resolved_vars, lib_call, lib_pc>>

mainVars == <<main_pc, dirs_done, children_done, total_broken_files,
              total_broken_packages, total_broken_libs, output_dir_exists,
              failure_seen, toc_created, exit_status>>

renderVars == <<html_template, render_op, rendered>>

navVars == <<nav_pc, result_str>>

tocVars == <<toc_pc, all_docs, doc_idx, doc_files_links, steps>>

vars == <<cfgVars, docsVars, libVars, mainVars, renderVars, fs, navVars, tocVars>>

----------------------------------------------------------------------------
(* Bounds *)

MaxLines == 4

MaxDeclarations == 4

MaxTokens == 5

MaxDirs == 2

MaxChildren == 3

MaxTemplate == 5

----------------------------------------------------------------------------
(* Generic helpers *)

BSeq(S, n) == UNION {[1..k -> S] : k \in 0..n}

\* Python str.strip() / \s : the whitespace characters of the model alphabet
Whitespace == {" ", "\t", "\n"}

RECURSIVE LStrip(_)
LStrip(s) ==
    IF s # <<>> /\ Head(s) \in Whitespace THEN LStrip(Tail(s)) ELSE s

RECURSIVE RStrip(_)
RStrip(s) ==
    IF s # <<>> /\ s[Len(s)] \in Whitespace
    THEN RStrip(SubSeq(s, 1, Len(s) - 1))
    ELSE s

\* str.strip()
Strip(s) == RStrip(LStrip(s))

UpperToLower ==
    ("A" :> "a") @@ ("B" :> "b") @@ ("C" :> "c") @@ ("E" :> "e") @@
    ("G" :> "g") @@ ("H" :> "h") @@ ("I" :> "i") @@ ("K" :> "k") @@
    ("L" :> "l") @@ ("P" :> "p") @@ ("R" :> "r") @@ ("S" :> "s") @@
    ("T" :> "t")

\* str.lower()
Lower(s) ==
    [i \in DOMAIN s |-> IF s[i] \in DOMAIN UpperToLower THEN UpperToLower[s[i]] ELSE s[i]]

\* str.startswith(prefix)
StartsWith(s, prefix) ==
    Len(s) >= Len(prefix) /\ SubSeq(s, 1, Len(prefix)) = prefix

\* str.endswith(suffix)
EndsWith(s, suffix) ==
    Len(s) >= Len(suffix) /\ SubSeq(s, Len(s) - Len(suffix) + 1, Len(s)) = suffix

----------------------------------------------------------------------------
(* The parts of the state a specification does not use stay as set here *)

IdleConfig ==
    /\ config_lines = <<>>
    /\ line_idx = 0
    /\ section_to_add = ""
    /\ sections = [paths |-> <<>>, packages |-> <<>>, libs |-> <<>>]
    /\ cfg_pc = "idle"

IdleDocs ==
    /\ config_file = <<>>
    /\ doc_config = [paths |-> <<>>, packages |-> <<>>, libs |-> <<>>]
    /\ docs_pc = "idle"
    /\ decl_idx = 0
    /\ pattern_idx = 0
    /\ match_idx = 0
    /\ packages = <<>>
    /\ broken_files = <<>>
    /\ broken_packages = <<>>
    /\ broken_libs = <<>>
    /\ calls = <<>>

IdleLib ==
    /\ lib = <<>>
    /\ lib_str_with_resolved_vars = <<>>
    /\ lib_call = <<>>
    /\ lib_pc = "idle"

IdleMain ==
    /\ main_pc = "idle"
    /\ dirs_done = 0
    /\ children_done = 0
    /\ total_broken_files = <<>>
    /\ total_broken_packages = <<>>
    /\ total_broken_libs = <<>>
    /\ output_dir_exists = FALSE
    /\ failure_seen = FALSE
    /\ toc_created = FALSE
    /\ exit_status = -1

IdleRender ==
    /\ html_template = <<>>
    /\ render_op = "idle"
    /\ rendered = <<>>

IdleNav ==
    /\ nav_pc = "idle"
    /\ result_str = <<>>

IdleToc ==
    /\ toc_pc = "idle"
    /\ all_docs = <<>>
    /\ doc_idx = 0
    /\ doc_files_links = <<>>
    /\ steps = <<>>

----------------------------------------------------------------------------
(* read_config *)

Markers ==
    [paths    |-> {<<"[", "p", "a", "t", "h", "s", "]">>},
     packages |-> {<<"[", "p", "a", "c", "k", "a", "g", "e", "s", "]">>},
     libs     |-> {<<"[", "l", "i", "b", "s", "]">>,
                   <<"[", "l", "i", "b", "r", "a", "r", "i", "e", "s", "]">>}]

EmptySections == [paths |-> <<>>, packages |-> <<>>, libs |-> <<>>]

\* MarkerSection comparing the line as written, not lowered
MarkerSectionCaseSensitive(stripped_line) ==
    IF \E n \in DOMAIN Markers : stripped_line \in Markers[n]
    THEN CHOOSE n \in DOMAIN Markers : stripped_line \in Markers[n]
    ELSE ""

\* the section whose markers hold the stripped line, "" when there is none
MarkerSection(stripped_line) ==
    IF \E n \in DOMAIN Markers : Lower(stripped_line) \in Markers[n]
    THEN CHOOSE n \in DOMAIN Markers : Lower(stripped_line) \in Markers[n]
    ELSE ""

\* one iteration of the loop over the lines: st = [cursor, values]
ReadConfigLine(st, line) ==
    LET stripped_line == Strip(line) IN
    IF Len(stripped_line) > 0 /\ ~StartsWith(stripped_line, <<"#">>)
    THEN IF MarkerSection(stripped_line) # ""
         THEN [st EXCEPT !.cursor = MarkerSection(stripped_line)]
         ELSE IF st.cursor # ""
              THEN [st EXCEPT !.values[st.cursor] = Append(@, stripped_line)]
              ELSE st
    ELSE st

RECURSIVE ReadConfigFrom(_, _)
ReadConfigFrom(st, lines) ==
    IF lines = <<>> THEN st.values
    ELSE ReadConfigFrom(ReadConfigLine(st, Head(lines)), Tail(lines))

\* read_config as a function of the file's lines
ReadConfig(lines) == ReadConfigFrom([cursor |-> "", values |-> EmptySections], lines)

\* the lines a config file is drawn from
LinePathsMarker == <<"[", "P", "a", "t", "h", "s", "]", "\n">>
LinePackagesMarker == <<"[", "p", "a", "c", "k", "a", "g", "e", "s", "]">>
LineLibsMarker == <<"\t", "[", "L", "I", "B", "S", "]", " ", "\n">>
LineLibrariesMarker == <<"[", "L", "i", "b", "r", "a", "r", "i", "e", "s", "]">>
LineComment == <<" ", "#", "[", "l", "i", "b", "s", "]">>
LineBlank == <<" ", "\n">>
LineValueA == <<"a", "\n">>
LineValueB == <<" ", "b", "*", " ">>
LineTypoMarker == <<"[", "p", "a", "t", "h", "]">>

LinePool ==
    {LinePathsMarker, LinePackagesMarker, LineLibsMarker, LineLibrariesMarker,
     LineComment, LineBlank, LineValueA, LineValueB, LineTypoMarker}

InitConfig ==
    /\ config_lines \in BSeq(LinePool, MaxLines)
    /\ line_idx = 1
    /\ section_to_add = ""
    /\ sections = EmptySections
    /\ cfg_pc = "lines"
    /\ IdleDocs
    /\ IdleLib
    /\ IdleMain
    /\ IdleRender
    /\ fs = {}
    /\ IdleNav
    /\ IdleToc

\* for line in lines: ... (one iteration)
ReadLine ==
    /\ cfg_pc = "lines"
    /\ line_idx <= Len(config_lines)
    /\ LET st == ReadConfigLine([cursor |-> section_to_add, values |-> sections],
                                config_lines[line_idx])
       IN /\ section_to_add' = st.cursor
          /\ sections' = st.values
    /\ line_idx' = line_idx + 1
    /\ UNCHANGED <<config_lines, cfg_pc, docsVars, libVars, mainVars, renderVars, fs, navVars, tocVars>>

\* return {"paths": ..., "packages": ..., "libs": ...}
ReadConfigReturn ==
    /\ cfg_pc = "lines"
    /\ line_idx > Len(config_lines)
    /\ cfg_pc' = "returned"
    /\ UNCHANGED <<config_lines, line_idx, section_to_add, sections, docsVars, libVars, mainVars, renderVars, fs, navVars, tocVars>>

NextConfig == ReadLine \/ ReadConfigReturn

SpecConfig == InitConfig /\ [][NextConfig]_vars

----------------------------------------------------------------------------
(* C1 *)

\* what each line of the pool is: a marker of a section, a value, or ignored
LineKind(line) ==
    CASE line = LinePathsMarker -> "paths"
      [] line = LinePackagesMarker -> "packages"
      [] line = LineLibsMarker -> "libs"
      [] line = LineLibrariesMarker -> "libs"
      [] line = LineComment -> "ignored"
      [] line = LineBlank -> "ignored"
      [] OTHER -> "value"

\* the text a value line of the pool contributes
LineText(line) ==
    CASE line = LineValueA -> <<"a">>
      [] line = LineValueB -> <<"b", "*">>
      [] OTHER -> line

IsMarkerAt(i) == LineKind(config_lines[i]) \in {"paths", "packages", "libs"}

\* the indices of the value lines whose most recently seen marker is one of section n
ValueLinesOf(n) ==
    {i \in 1..Len(config_lines) :
        /\ LineKind(config_lines[i]) = "value"
        /\ \E m \in 1..(i - 1) :
              /\ LineKind(config_lines[m]) = n
              /\ \A k \in (m + 1)..(i - 1) : ~IsMarkerAt(k)}

\* the k-th smallest element of a set of integers
Nth(S, k) == CHOOSE i \in S : Cardinality({j \in S : j < i}) = k - 1

ExpectedValues(n) ==
    [k \in 1..Cardinality(ValueLinesOf(n)) |-> LineText(config_lines[Nth(ValueLinesOf(n), k)])]

\* C1: read_config returns, per section, exactly the value lines that follow
\* a marker of that section (the most recently seen one), trimmed, in file
\* order; lines before the first marker, markers, blank and '#' lines are
\* in no returned sequence.
C1_ConfigRoundTrip ==
    cfg_pc = "returned" =>
        \A n \in {"paths", "packages", "libs"} : sections[n] = ExpectedValues(n)

\* a file with a value line before the first marker, an ignored line after
\* it, and a value behind a marker written in another case
C1_Witness ==
    /\ cfg_pc = "returned"
    /\ Len(config_lines) = 4
    /\ LineKind(config_lines[1]) = "value"
    /\ config_lines[2] = LineLibrariesMarker
    /\ LineKind(config_lines[3]) = "ignored"
    /\ Len(sections.libs) = 1

----------------------------------------------------------------------------
(* Paths *)

\* the first index of character c in s, 0 when there is none
IndexOf(s, c) ==
    IF \E i \in DOMAIN s : s[i] = c
    THEN CHOOSE i \in DOMAIN s : s[i] = c /\ \A j \in 1..(i - 1) : s[j] # c
    ELSE 0

\* the last index of character c in s, 0 when there is none
LastIndexOf(s, c) ==
    IF \E i \in DOMAIN s : s[i] = c
    THEN CHOOSE i \in DOMAIN s : s[i] = c /\ \A j \in (i + 1)..Len(s) : s[j] # c
    ELSE 0

\* os.path.join(a, b)
Join(a, b) ==
    IF b # <<>> /\ Head(b) = "/" THEN b
    ELSE IF a = <<>> \/ a[Len(a)] = "/" THEN a \o b
    ELSE a \o <<"/">> \o b

\* os.path.basename(p)
Basename(p) == SubSeq(p, LastIndexOf(p, "/") + 1, Len(p))

\* os.path.relpath(p, start) / Path.relative_to(start), for p below start
RelPath(p, start) == SubSeq(p, Len(start) + 2, Len(p))

\* s.rpartition(".")[0]
RPartitionHead(s) == SubSeq(s, 1, LastIndexOf(s, ".") - 1)

\* s.partition("::")[0]
PartitionHead(s) ==
    LET hits == {i \in 1..(Len(s) - 1) : s[i] = ":" /\ s[i + 1] = ":"} IN
    IF hits = {} THEN s
    ELSE SubSeq(s, 1, (CHOOSE i \in hits : \A j \in hits : i <= j) - 1)

DotHtml == <<".", "h", "t", "m", "l">>

\* PurePath.suffix of the last component: from its last dot, unless that dot
\* is the first or the last character of the component
SuffixLen(p) ==
    LET name == Basename(p)
        i == LastIndexOf(name, ".")
    IN IF 1 < i /\ i < Len(name) THEN Len(name) - i + 1 ELSE 0

\* PurePath.with_suffix(".html")
WithSuffixHtml(p) == SubSeq(p, 1, Len(p) - SuffixLen(p)) \o DotHtml

\* fnmatch of one relative path against a pattern: "*" matches any run of
\* characters other than "/"
RECURSIVE GlobMatch(_, _)
GlobMatch(pattern, path) ==
    IF pattern = <<>> THEN path = <<>>
    ELSE IF Head(pattern) = "*"
         THEN \/ GlobMatch(Tail(pattern), path)
              \/ path # <<>> /\ Head(path) # "/" /\ GlobMatch(pattern, Tail(path))
         ELSE path # <<>> /\ Head(path) = Head(pattern)
                          /\ GlobMatch(Tail(pattern), Tail(path))

\* glob.glob(os.path.join(root, pattern)) / Path.glob(pattern): the matching
\* files under root, in directory listing order
Glob(root, files, pattern) ==
    LET hits == SelectSeq(files, LAMBDA f : GlobMatch(pattern, f))
    IN [i \in DOMAIN hits |-> Join(root, hits[i])]

----------------------------------------------------------------------------
(* The directories of one generation pass *)

resource_dir == <<"r">>

output_dir == <<"/", "o">>

target_dir == Join(output_dir, Basename(resource_dir))

\* the files below resource_dir, in listing order
ResourceFiles ==
    << <<"a", ".", "p", "y">>,
       <<"a", ".", "r", "e", "s", "o", "u", "r", "c", "e">> >>

\* importlib_resources.files(package_name): the installed packages
PackageRoot ==
    (<<"p", "k">> :> <<"/", "s", "/", "p", "k">>) @@
    (<<"q">> :> <<"/", "s", "/", "q">>)

\* the files below each package root, in listing order
PackageFiles ==
    (<<"p", "k">> :> << <<"k", ".", "p", "y">>, <<"m", ".", "p", "y">> >>) @@
    (<<"q">> :> << <<"k", ".", "p", "y">> >>)

\* calls is the history of the pass: one record per call of robot.libdoc.libdoc
\* (category "paths", "packages" or "libs") and one per package that
\* importlib_resources.files did not find (category "not_found")

\* robot.libdoc.libdoc returns 0, or a positive status on failure
ReturnCodes == {0, 1}

NoName == <<"<None>">>

----------------------------------------------------------------------------
(* os.path.expandvars *)

\* the environment of the process
Environ == (<<"V">> :> <<"X">>)

NameChars == {"A", "S", "L", "M", "V", "X", "d", "1"}

\* the length of the run of name characters of s from index i
RECURSIVE NameRun(_, _)
NameRun(s, i) ==
    IF i <= Len(s) /\ s[i] \in NameChars THEN 1 + NameRun(s, i + 1) ELSE 0

\* os.path.expandvars(s): $NAME is replaced when NAME is set, and kept otherwise
RECURSIVE ExpandVars(_)
ExpandVars(s) ==
    IF s = <<>> THEN <<>>
    ELSE IF Head(s) = "$"
         THEN LET n == NameRun(s, 2)
                  var == SubSeq(s, 2, n + 1)
                  rest == ExpandVars(SubSeq(s, n + 2, Len(s)))
              IN IF var \in DOMAIN Environ THEN Environ[var] \o rest
                 ELSE <<"$">> \o var \o rest
         ELSE <<Head(s)>> \o ExpandVars(Tail(s))

----------------------------------------------------------------------------
(* The rename grammar of a lib string *)

Keywords == {<<"A", "S">>, <<"W", "I", "T", "H", " ", "N", "A", "M", "E">>}

IsAt(s, i, w) == i + Len(w) - 1 <= Len(s) /\ SubSeq(s, i, i + Len(w) - 1) = w

AllIn(s, i, j, chars) == \A k \in i..j : s[k] \in chars

NoNewline(s, i, j) == \A k \in i..j : s[k] # "\n"

\* every way to read s as (.+) sep{2,} (AS|WITH NAME) sep{2,} (.+), sep a
\* run of characters of sepChars: <<end of group 1, start of group 2>>
Splits(s, sepChars) ==
    UNION {
        {<<e, t>> :
            e \in {x \in 1..(kw[1] - 3) :
                      AllIn(s, x + 1, kw[1] - 1, sepChars) /\ NoNewline(s, 1, x)},
            t \in {y \in (kw[1] + Len(kw[2]) + 2)..Len(s) :
                      AllIn(s, kw[1] + Len(kw[2]), y - 1, sepChars)
                      /\ NoNewline(s, y, Len(s))}}
        : kw \in {x \in (1..Len(s)) \X Keywords : IsAt(s, x[1], x[2])}}

\* as_split.fullmatch(s): group 1 is greedy, the separators are greedy, and
\* group 2 runs to the end of the string; <<>> when there is no match
AsSplitFullMatch(s) ==
    LET all == Splits(s, Whitespace) IN
    IF all = {} THEN <<>>
    ELSE LET best == CHOOSE d \in all :
                        \A o \in all : o[1] < d[1] \/ (o[1] = d[1] /\ o[2] <= d[2])
         IN <<SubSeq(s, 1, best[1]), SubSeq(s, best[2], Len(s))>>

\* ResolveLib naming the docs by the whole target name, directories included
ResolveLibWholeName(s) ==
    LET renamed == AsSplitFullMatch(s) IN
    IF renamed # <<>>
    THEN [source |-> renamed[1],
          name |-> renamed[2],
          output_path |-> Join(target_dir, renamed[2] \o DotHtml)]
    ELSE [source |-> s,
          name |-> NoName,
          output_path |-> Join(target_dir, PartitionHead(s) \o DotHtml)]

\* lines 224-239: what libdoc is called with for one substituted lib string
ResolveLib(s) ==
    LET renamed == AsSplitFullMatch(s) IN
    IF renamed # <<>>
    THEN [source |-> renamed[1],
          name |-> Basename(renamed[2]),
          output_path |-> Join(target_dir, renamed[2] \o DotHtml)]
    ELSE [source |-> s,
          name |-> NoName,
          output_path |-> Join(target_dir, PartitionHead(s) \o DotHtml)]

----------------------------------------------------------------------------
(* create_docs_for_dir *)

PathPatternPool ==
    {<<"*", ".", "p", "y">>, <<"a", ".", "*">>}

PackageDefinitionPool ==
    {<<"p", "k", ":", "k", ".", "*">>,
     <<"p", "k", ":", "m", ".", "*">>,
     <<"q", ":", "*", ".", "p", "y">>,
     <<"n", "o", "p", "k", ":", "*">>,
     <<"b", "a", "d">>}

LibPool ==
    {<<"L", ":", ":", "1">>,
     <<"L", " ", " ", "A", "S", " ", " ", "d", "/", "M">>}

\* the config file holding the given declarations
ConfigFileOf(paths, pkgs, libs) ==
    <<LinePathsMarker>> \o paths \o <<LinePackagesMarker>> \o pkgs
        \o <<LineLibsMarker>> \o libs

InitDocs ==
    /\ \E n_paths \in 0..MaxDeclarations :
       \E n_pkgs \in 0..(MaxDeclarations - n_paths) :
       \E n_libs \in 0..(MaxDeclarations - n_paths - n_pkgs) :
       \E paths \in [1..n_paths -> PathPatternPool],
          pkgs \in [1..n_pkgs -> PackageDefinitionPool],
          libs \in [1..n_libs -> LibPool] :
            config_file = ConfigFileOf(paths, pkgs, libs)
    /\ doc_config = [paths |-> <<>>, packages |-> <<>>, libs |-> <<>>]
    /\ docs_pc = "start"
    /\ decl_idx = 0
    /\ pattern_idx = 0
    /\ match_idx = 0
    /\ packages = <<>>
    /\ broken_files = <<>>
    /\ broken_packages = <<>>
    /\ broken_libs = <<>>
    /\ calls = <<>>
    /\ IdleConfig
    /\ IdleLib
    /\ IdleMain
    /\ IdleRender
    /\ fs = {}
    /\ IdleNav
    /\ IdleToc

\* package_definition.split(":", 1)
SplitDefinition(package_definition) ==
    LET i == IndexOf(package_definition, ":") IN
    [package_name |-> SubSeq(package_definition, 1, i - 1),
     path_pattern |-> SubSeq(package_definition, i + 1, Len(package_definition))]

\* AddDefinition putting the pattern in front of the patterns of its group
AddDefinitionInFront(groups, d) ==
    IF \E g \in DOMAIN groups : groups[g].package_name = d.package_name
    THEN [g \in DOMAIN groups |->
            IF groups[g].package_name = d.package_name
            THEN [groups[g] EXCEPT !.paths_patterns = <<d.path_pattern>> \o @]
            ELSE groups[g]]
    ELSE Append(groups, [package_name |-> d.package_name,
                         paths_patterns |-> <<d.path_pattern>>])

\* lines 186-188: the pattern joins the group of its package name, a new
\* name opens a group behind the existing ones (dict insertion order)
AddDefinition(groups, d) ==
    IF \E g \in DOMAIN groups : groups[g].package_name = d.package_name
    THEN [g \in DOMAIN groups |->
            IF groups[g].package_name = d.package_name
            THEN [groups[g] EXCEPT !.paths_patterns = Append(@, d.path_pattern)]
            ELSE groups[g]]
    ELSE Append(groups, [package_name |-> d.package_name,
                         paths_patterns |-> <<d.path_pattern>>])

RECURSIVE GroupPackages(_, _)
GroupPackages(groups, package_definitions) ==
    IF package_definitions = <<>> THEN groups
    ELSE GroupPackages(AddDefinition(groups, SplitDefinition(Head(package_definitions))),
                       Tail(package_definitions))

\* RecordBroken recording only a status above 1
RecordBrokenAboveOne(broken, return_code, entry) ==
    IF return_code > 1 THEN Append(broken, entry) ELSE broken

\* if return_code > 0: broken.append(entry)
RecordBroken(broken, return_code, entry) ==
    IF return_code > 0 THEN Append(broken, entry) ELSE broken

\* lines 157-165
DocsStart ==
    /\ docs_pc = "start"
    /\ doc_config' = ReadConfig(config_file)
    /\ docs_pc' = "paths"
    /\ decl_idx' = 1
    /\ match_idx' = 1
    /\ UNCHANGED <<config_file, pattern_idx, packages, broken_files, broken_packages,
                   broken_libs, calls, cfgVars, libVars, mainVars, renderVars, fs, navVars, tocVars>>

PathMatches == Glob(resource_dir, ResourceFiles, doc_config.paths[decl_idx])

\* lines 170-177: one match of the current path pattern
ProcessFile ==
    /\ docs_pc = "paths"
    /\ decl_idx <= Len(doc_config.paths)
    /\ match_idx <= Len(PathMatches)
    /\ \E return_code \in ReturnCodes :
          LET real_path == PathMatches[match_idx]
              relative_path == RelPath(real_path, resource_dir)
              target_path == Join(target_dir, RPartitionHead(relative_path) \o DotHtml)
          IN /\ calls' = Append(calls, [category |-> "paths", decl |-> decl_idx,
                                        pattern |-> 0,
                                        source |-> real_path, output_path |-> target_path,
                                        name |-> NoName, entry |-> relative_path,
                                        return_code |-> return_code])
             /\ broken_files' = RecordBroken(broken_files, return_code, relative_path)
    /\ match_idx' = match_idx + 1
    /\ UNCHANGED <<config_file, doc_config, docs_pc, decl_idx, pattern_idx, packages,
                   broken_packages, broken_libs, cfgVars, libVars, mainVars, renderVars, fs, navVars, tocVars>>

\* line 166: the next path pattern
NextPathPattern ==
    /\ docs_pc = "paths"
    /\ decl_idx <= Len(doc_config.paths)
    /\ match_idx > Len(PathMatches)
    /\ decl_idx' = decl_idx + 1
    /\ match_idx' = 1
    /\ UNCHANGED <<config_file, doc_config, docs_pc, pattern_idx, packages, broken_files,
                   broken_packages, broken_libs, calls, cfgVars, libVars, mainVars, renderVars, fs, navVars, tocVars>>

WellFormed(package_definition) == IndexOf(package_definition, ":") > 0

\* lines 179-188: the definitions are grouped by package name
SplitPackages ==
    /\ docs_pc = "paths"
    /\ decl_idx > Len(doc_config.paths)
    /\ \A i \in DOMAIN doc_config.packages : WellFormed(doc_config.packages[i])
    /\ packages' = GroupPackages(<<>>, doc_config.packages)
    /\ docs_pc' = "packages"
    /\ decl_idx' = 1
    /\ UNCHANGED <<config_file, doc_config, pattern_idx, match_idx, broken_files,
                   broken_packages, broken_libs, calls, cfgVars, libVars, mainVars, renderVars, fs, navVars, tocVars>>

\* line 185: a definition without ":" does not unpack into two names (ValueError)
SplitPackagesRaises ==
    /\ docs_pc = "paths"
    /\ decl_idx > Len(doc_config.paths)
    /\ \E i \in DOMAIN doc_config.packages : ~WellFormed(doc_config.packages[i])
    /\ docs_pc' = "raised"
    /\ UNCHANGED <<config_file, doc_config, decl_idx, pattern_idx, match_idx, packages,
                   broken_files, broken_packages, broken_libs, calls, cfgVars, libVars, mainVars, renderVars, fs, navVars, tocVars>>

\* PackageNotFound ending the pass instead of going on with the next package
PackageNotFoundAborts ==
    /\ docs_pc = "packages"
    /\ decl_idx <= Len(packages)
    /\ packages[decl_idx].package_name \notin DOMAIN PackageRoot
    /\ broken_packages' = Append(broken_packages, packages[decl_idx].package_name)
    /\ calls' = Append(calls, [category |-> "not_found", decl |-> decl_idx,
                               pattern |-> 0, source |-> <<>>, output_path |-> <<>>,
                               name |-> NoName,
                               entry |-> packages[decl_idx].package_name,
                               return_code |-> 0])
    /\ docs_pc' = "returned"
    /\ UNCHANGED <<config_file, doc_config, decl_idx, pattern_idx, match_idx, packages,
                   broken_files, broken_libs, cfgVars, libVars, mainVars, renderVars, fs, navVars, tocVars>>

\* lines 193-196: ModuleNotFoundError
PackageNotFound ==
    /\ docs_pc = "packages"
    /\ decl_idx <= Len(packages)
    /\ packages[decl_idx].package_name \notin DOMAIN PackageRoot
    /\ broken_packages' = Append(broken_packages, packages[decl_idx].package_name)
    /\ calls' = Append(calls, [category |-> "not_found", decl |-> decl_idx,
                               pattern |-> 0, source |-> <<>>, output_path |-> <<>>,
                               name |-> NoName,
                               entry |-> packages[decl_idx].package_name,
                               return_code |-> 0])
    /\ decl_idx' = decl_idx + 1
    /\ UNCHANGED <<config_file, doc_config, docs_pc, pattern_idx, match_idx, packages,
                   broken_files, broken_libs, cfgVars, libVars, mainVars, renderVars, fs, navVars, tocVars>>

\* lines 193, 197-199: the package is located
EnterPackage ==
    /\ docs_pc = "packages"
    /\ decl_idx <= Len(packages)
    /\ packages[decl_idx].package_name \in DOMAIN PackageRoot
    /\ docs_pc' = "package_files"
    /\ pattern_idx' = 1
    /\ match_idx' = 1
    /\ UNCHANGED <<config_file, doc_config, decl_idx, packages, broken_files,
                   broken_packages, broken_libs, calls, cfgVars, libVars, mainVars, renderVars, fs, navVars, tocVars>>

PackageMatches ==
    LET package_name == packages[decl_idx].package_name IN
    Glob(PackageRoot[package_name], PackageFiles[package_name],
         packages[decl_idx].paths_patterns[pattern_idx])

\* lines 201-213: one match of the current pattern of the current package
ProcessPackageFile ==
    /\ docs_pc = "package_files"
    /\ pattern_idx <= Len(packages[decl_idx].paths_patterns)
    /\ match_idx <= Len(PackageMatches)
    /\ \E return_code \in ReturnCodes :
          LET package_name == packages[decl_idx].package_name
              real_path == PackageMatches[match_idx]
              relative_path == Join(package_name,
                                    RelPath(real_path, PackageRoot[package_name]))
              target_path == Join(target_dir, WithSuffixHtml(relative_path))
          IN /\ calls' = Append(calls, [category |-> "packages", decl |-> decl_idx,
                                        pattern |-> pattern_idx,
                                        source |-> real_path, output_path |-> target_path,
                                        name |-> NoName, entry |-> relative_path,
                                        return_code |-> return_code])
             /\ broken_packages' = RecordBroken(broken_packages, return_code, relative_path)
    /\ match_idx' = match_idx + 1
    /\ UNCHANGED <<config_file, doc_config, docs_pc, decl_idx, pattern_idx, packages,
                   broken_files, broken_libs, cfgVars, libVars, mainVars, renderVars, fs, navVars, tocVars>>

\* line 199: the next pattern of the current package
NextPackagePattern ==
    /\ docs_pc = "package_files"
    /\ pattern_idx <= Len(packages[decl_idx].paths_patterns)
    /\ match_idx > Len(PackageMatches)
    /\ pattern_idx' = pattern_idx + 1
    /\ match_idx' = 1
    /\ UNCHANGED <<config_file, doc_config, docs_pc, decl_idx, packages, broken_files,
                   broken_packages, broken_libs, calls, cfgVars, libVars, mainVars, renderVars, fs, navVars, tocVars>>

\* line 190: the next package
LeavePackage ==
    /\ docs_pc = "package_files"
    /\ pattern_idx > Len(packages[decl_idx].paths_patterns)
    /\ docs_pc' = "packages"
    /\ decl_idx' = decl_idx + 1
    /\ UNCHANGED <<config_file, doc_config, pattern_idx, match_idx, packages, broken_files,
                   broken_packages, broken_libs, calls, cfgVars, libVars, mainVars, renderVars, fs, navVars, tocVars>>

\* lines 215-220
StartLibs ==
    /\ docs_pc = "packages"
    /\ decl_idx > Len(packages)
    /\ docs_pc' = "libs"
    /\ decl_idx' = 1
    /\ UNCHANGED <<config_file, doc_config, pattern_idx, match_idx, packages, broken_files,
                   broken_packages, broken_libs, calls, cfgVars, libVars, mainVars, renderVars, fs, navVars, tocVars>>

\* lines 221-241: one lib
ProcessLib ==
    /\ docs_pc = "libs"
    /\ decl_idx <= Len(doc_config.libs)
    /\ \E return_code \in ReturnCodes :
          LET resolved == ResolveLib(ExpandVars(doc_config.libs[decl_idx]))
          IN /\ calls' = Append(calls, [category |-> "libs", decl |-> decl_idx,
                                        pattern |-> 0,
                                        source |-> resolved.source,
                                        output_path |-> resolved.output_path,
                                        name |-> resolved.name, entry |-> resolved.source,
                                        return_code |-> return_code])
             /\ broken_libs' = RecordBroken(broken_libs, return_code, resolved.source)
    /\ decl_idx' = decl_idx + 1
    /\ UNCHANGED <<config_file, doc_config, docs_pc, pattern_idx, match_idx, packages,
                   broken_files, broken_packages, cfgVars, libVars, mainVars, renderVars, fs, navVars, tocVars>>

\* line 242
DocsReturn ==
    /\ docs_pc = "libs"
    /\ decl_idx > Len(doc_config.libs)
    /\ docs_pc' = "returned"
    /\ UNCHANGED <<config_file, doc_config, decl_idx, pattern_idx, match_idx, packages,
                   broken_files, broken_packages, broken_libs, calls, cfgVars, libVars, mainVars, renderVars, fs, navVars, tocVars>>

NextDocs ==
    \/ DocsStart
    \/ ProcessFile
    \/ NextPathPattern
    \/ SplitPackages
    \/ SplitPackagesRaises
    \/ PackageNotFound
    \/ EnterPackage
    \/ ProcessPackageFile
    \/ NextPackagePattern
    \/ LeavePackage
    \/ StartLibs
    \/ ProcessLib
    \/ DocsReturn

SpecDocs == InitDocs /\ [][NextDocs]_vars

----------------------------------------------------------------------------
(* C2, C3, C6, C10 *)

CallsOf(category) == {c \in DOMAIN calls : calls[c].category = category}

PackageNameOf(i) == SplitDefinition(doc_config.packages[i]).package_name

PackagePatternOf(i) == SplitDefinition(doc_config.packages[i]).path_pattern

\* the declarations of the packages section that name the same package as declaration i
SameNameAs(i) ==
    {j \in DOMAIN doc_config.packages : PackageNameOf(j) = PackageNameOf(i)}

\* the declaration of the packages section that a generator call comes from
DeclarationOf(c) ==
    LET named == {j \in DOMAIN doc_config.packages :
                     PackageNameOf(j) = packages[calls[c].decl].package_name}
    IN Nth(named, calls[c].pattern)

\* the files of a listing that a pattern matches
Matched(files, pattern) ==
    {k \in DOMAIN files : GlobMatch(pattern, files[k])}

\* C2: when the pass ends, every match of every path declaration, every
\* match of every declaration of a located package and every lib has been
\* handed to the generator exactly once, whatever the earlier calls
\* returned and whichever packages were not found.
C2_AllTargetsAttempted ==
    docs_pc = "returned" =>
        /\ \A i \in DOMAIN doc_config.paths :
           \A k \in Matched(ResourceFiles, doc_config.paths[i]) :
              Cardinality({c \in CallsOf("paths") :
                  /\ calls[c].decl = i
                  /\ calls[c].source = Join(resource_dir, ResourceFiles[k])}) = 1
        /\ \A i \in DOMAIN doc_config.packages :
              PackageNameOf(i) \in DOMAIN PackageRoot =>
                 \A k \in Matched(PackageFiles[PackageNameOf(i)], PackagePatternOf(i)) :
                    Cardinality({c \in CallsOf("packages") :
                        /\ DeclarationOf(c) = i
                        /\ calls[c].source = Join(PackageRoot[PackageNameOf(i)],
                                                  PackageFiles[PackageNameOf(i)][k])}) = 1
        /\ \A i \in DOMAIN doc_config.libs :
              Cardinality({c \in CallsOf("libs") : calls[c].decl = i}) = 1

\* a generator call failed and a package was not found, and targets of all
\* three categories were attempted after that
C2_Witness ==
    /\ docs_pc = "returned"
    /\ \E f, n, p, l \in DOMAIN calls :
          /\ f < n /\ n < p /\ p < l
          /\ calls[f].category = "paths" /\ calls[f].return_code > 0
          /\ calls[n].category = "not_found"
          /\ calls[p].category = "packages"
          /\ calls[l].category = "libs"

\* the entries of the failed events of the given categories, in the order of the events
RECURSIVE FailedEntries(_, _)
FailedEntries(history, categories) ==
    IF history = <<>> THEN <<>>
    ELSE LET e == Head(history)
             rest == FailedEntries(Tail(history), categories)
         IN IF e.category \in categories
               /\ (e.return_code # 0 \/ e.category = "not_found")
            THEN <<e.entry>> \o rest
            ELSE rest

\* C3: the three returned sequences hold, in invocation order, one entry per
\* generator call that returned a nonzero status (and, for packages, one per
\* package that was not found), and nothing for a call that returned 0.
C3_BrokenLists ==
    docs_pc = "returned" =>
        /\ broken_files = FailedEntries(calls, {"paths"})
        /\ broken_packages = FailedEntries(calls, {"packages", "not_found"})
        /\ broken_libs = FailedEntries(calls, {"libs"})

\* a pass with a failed and a succeeded call, and a package that was not
\* found before a package file failed
C3_Witness ==
    /\ docs_pc = "returned"
    /\ \E a, b \in CallsOf("paths") :
          calls[a].return_code = 0 /\ calls[b].return_code > 0
    /\ Len(broken_packages) >= 2
    /\ \E n, c \in DOMAIN calls :
          /\ n < c
          /\ calls[n].category = "not_found"
          /\ calls[c].category = "packages" /\ calls[c].return_code > 0

\* C6: two targets of one pass with distinct relative source paths are
\* given distinct output paths.
C6_OutputPathsUnique ==
    \A a, b \in CallsOf("paths") \cup CallsOf("packages") :
        calls[a].category = calls[b].category /\ calls[a].entry # calls[b].entry
            => calls[a].output_path # calls[b].output_path

\* C10 as stated: within a category the calls follow the order of the declarations.
C10_DeclarationOrder ==
    /\ \A a, b \in CallsOf("paths") : a < b => calls[a].decl <= calls[b].decl
    /\ \A a, b \in CallsOf("libs") : a < b => calls[a].decl <= calls[b].decl
    /\ \A a, b \in CallsOf("packages") : a < b => DeclarationOf(a) <= DeclarationOf(b)

\* the first declaration that names the package of declaration i
FirstOfName(i) == Nth(SameNameAs(i), 1)

\* C10 as amended: paths and libs follow the order of the declarations; the
\* packages are processed in the order in which their names first appear,
\* and the declarations of one package in their order, each call taking a
\* match of the pattern of its declaration (stated of the finished pass,
\* whose history holds every call).
C10_GroupedDeclarationOrder ==
    docs_pc = "returned" =>
        /\ \A a, b \in CallsOf("paths") : a < b => calls[a].decl <= calls[b].decl
        /\ \A a, b \in CallsOf("libs") : a < b => calls[a].decl <= calls[b].decl
        /\ \A a, b \in CallsOf("packages") :
              a < b =>
                 \/ FirstOfName(DeclarationOf(a)) < FirstOfName(DeclarationOf(b))
                 \/ /\ PackageNameOf(DeclarationOf(a)) = PackageNameOf(DeclarationOf(b))
                    /\ DeclarationOf(a) <= DeclarationOf(b)
        /\ \A c \in CallsOf("packages") :
              \E k \in Matched(PackageFiles[PackageNameOf(DeclarationOf(c))],
                               PackagePatternOf(DeclarationOf(c))) :
                 calls[c].source = Join(PackageRoot[PackageNameOf(DeclarationOf(c))],
                                        PackageFiles[PackageNameOf(DeclarationOf(c))][k])

\* a package is declared twice around the declaration of another one, and
\* all three declarations had a file processed
C10_Witness ==
    /\ docs_pc = "returned"
    /\ \E a, b, c \in CallsOf("packages") :
          /\ a < b /\ b < c
          /\ DeclarationOf(a) < DeclarationOf(c)
          /\ DeclarationOf(c) < DeclarationOf(b)

----------------------------------------------------------------------------
(* Lib resolution, one lib string at a time *)

LibTokens ==
    {<<"L">>, <<":", ":", "1">>, <<" ", " ">>, <<"\t", " ">>, <<"A", "S">>,
     <<"W", "I", "T", "H", " ", "N", "A", "M", "E">>, <<"d", "/", "M">>, <<"$", "V">>}

RECURSIVE Flatten(_)
Flatten(tokens) ==
    IF tokens = <<>> THEN <<>> ELSE Head(tokens) \o Flatten(Tail(tokens))

\* a lib is a value line of the config: not empty and already stripped
InitLib ==
    /\ \E tokens \in BSeq(LibTokens, MaxTokens) : lib = Flatten(tokens)
    /\ lib # <<>>
    /\ lib = Strip(lib)
    /\ lib_str_with_resolved_vars = <<>>
    /\ lib_call = <<>>
    /\ lib_pc = "expandvars"
    /\ IdleConfig
    /\ IdleDocs
    /\ IdleMain
    /\ IdleRender
    /\ fs = {}
    /\ IdleNav
    /\ IdleToc

\* line 222
LibExpandVars ==
    /\ lib_pc = "expandvars"
    /\ lib_str_with_resolved_vars' = ExpandVars(lib)
    /\ lib_pc' = "match"
    /\ UNCHANGED <<lib, lib_call, cfgVars, docsVars, mainVars, renderVars, fs, navVars, tocVars>>

\* lines 224-239
LibCall ==
    /\ lib_pc = "match"
    /\ lib_call' = ResolveLib(lib_str_with_resolved_vars)
    /\ lib_pc' = "called"
    /\ UNCHANGED <<lib, lib_str_with_resolved_vars, cfgVars, docsVars, mainVars, renderVars, fs, navVars, tocVars>>

NextLib == LibExpandVars \/ LibCall

SpecLib == InitLib /\ [][NextLib]_vars

----------------------------------------------------------------------------
(* C5 *)

\* the sequence of n copies of the characters of a set, as a predicate:
\* s[i..j] is a run of at least two characters of sepChars
IsSeparator(s, i, j, sepChars) == j - i + 1 >= 2 /\ AllIn(s, i, j, sepChars)

\* s reads <prefix><separator>(AS|WITH NAME)<separator><target name> with the
\* prefix ending at e and the target name starting at t
HasForm(s, e, t, sepChars) ==
    \E kw \in Keywords :
    \E k \in (e + 3)..(t - 2 - Len(kw)) :
       /\ SubSeq(s, k, k + Len(kw) - 1) = kw
       /\ IsSeparator(s, e + 1, k - 1, sepChars)
       /\ IsSeparator(s, k + Len(kw), t - 1, sepChars)

\* the positions after which, and before which, two characters of sepChars stand
BeforeSeparator(s, sepChars) ==
    {e \in 1..(Len(s) - 2) : s[e + 1] \in sepChars /\ s[e + 2] \in sepChars}

AfterSeparator(s, sepChars) ==
    {t \in 3..Len(s) : s[t - 1] \in sepChars /\ s[t - 2] \in sepChars}

Forms(s, sepChars) ==
    {d \in BeforeSeparator(s, sepChars) \X AfterSeparator(s, sepChars) :
        HasForm(s, d[1], d[2], sepChars)}

\* what the claim says the generator is called with, for separators made of sepChars
CallAsClaimed(s, sepChars) ==
    IF Forms(s, sepChars) # {}
    THEN \E d \in Forms(s, sepChars) :
            /\ \A o \in Forms(s, sepChars) : o[1] <= d[1]
            /\ lib_call.source = SubSeq(s, 1, d[1])
            /\ lib_call.name = Basename(SubSeq(s, d[2], Len(s)))
            /\ lib_call.output_path =
                  target_dir \o <<"/">> \o SubSeq(s, d[2], Len(s)) \o DotHtml
    ELSE /\ lib_call.source = s
         /\ lib_call.name = NoName
         /\ lib_call.output_path =
               target_dir \o <<"/">> \o
               SubSeq(s, 1, (IF \E i \in 1..(Len(s) - 1) : SubSeq(s, i, i + 1) = <<":", ":">>
                             THEN (CHOOSE i \in 1..(Len(s) - 1) :
                                     /\ SubSeq(s, i, i + 1) = <<":", ":">>
                                     /\ \A j \in 1..(i - 1) : SubSeq(s, j, j + 1) # <<":", ":">>)
                                  - 1
                             ELSE Len(s)))
               \o DotHtml

----------------------------------------------------------------------------
(* main *)

\* what one call of create_docs_for_dir hands back: per category the broken
\* entries, and whether a generated file made the output directory exist
DocsOutcomes ==
    [files : BSeq({"broken"}, 1), packages : BSeq({"broken"}, 1),
     libs : BSeq({"broken"}, 1), wrote : BOOLEAN]

\* ExitStatus without the branch for a missing output directory
ExitStatusOfErrorsOnly(broken_f, broken_p, broken_l, is_dir) ==
    IF Len(broken_f) + Len(broken_p) + Len(broken_l) # 0 THEN 1 ELSE 0

\* lines 397-418: the status main ends with (0: it returns normally)
ExitStatus(broken_f, broken_p, broken_l, is_dir) ==
    LET counted == Len(broken_f) + Len(broken_p) + Len(broken_l)
        errors == IF ~is_dir /\ counted <= 0 THEN 1 ELSE counted
    IN IF errors # 0 THEN 1 ELSE 0

InitMain ==
    /\ main_pc = "start"
    /\ dirs_done = 0
    /\ children_done = 0
    /\ total_broken_files = <<>>
    /\ total_broken_packages = <<>>
    /\ total_broken_libs = <<>>
    /\ output_dir_exists \in BOOLEAN
    /\ failure_seen = FALSE
    /\ toc_created = FALSE
    /\ exit_status = -1
    /\ IdleConfig
    /\ IdleDocs
    /\ IdleLib
    /\ IdleRender
    /\ fs = {}
    /\ IdleNav
    /\ IdleToc

\* lines 333-338: an output directory left by an earlier run is deleted
RemoveOutputDir ==
    /\ main_pc = "start"
    /\ output_dir_exists' = FALSE
    /\ main_pc' = "dirs"
    /\ UNCHANGED <<dirs_done, children_done, total_broken_files, total_broken_packages,
                   total_broken_libs, failure_seen, toc_created, exit_status,
                   cfgVars, docsVars, libVars, renderVars, fs, navVars, tocVars>>

\* line 340: the next resources dir
EnterResourcesDir ==
    /\ main_pc = "dirs"
    /\ dirs_done < MaxDirs
    /\ main_pc' = "children"
    /\ children_done' = 0
    /\ UNCHANGED <<dirs_done, total_broken_files, total_broken_packages,
                   total_broken_libs, output_dir_exists, failure_seen, toc_created,
                   exit_status, cfgVars, docsVars, libVars, renderVars, fs, navVars, tocVars>>

\* lines 343-371: a child that is a directory with a config file, or the
\* config file of the resources dir itself: create_docs_for_dir runs
ChildWithConfig ==
    /\ main_pc = "children"
    /\ children_done < MaxChildren
    /\ \E current \in DocsOutcomes :
          /\ total_broken_files' = total_broken_files \o current.files
          /\ total_broken_packages' = total_broken_packages \o current.packages
          /\ total_broken_libs' = total_broken_libs \o current.libs
          /\ output_dir_exists' = (output_dir_exists \/ current.wrote)
          /\ failure_seen' = (failure_seen \/ current.files # <<>>
                                \/ current.packages # <<>> \/ current.libs # <<>>)
    /\ children_done' = children_done + 1
    /\ UNCHANGED <<main_pc, dirs_done, toc_created, exit_status, cfgVars, docsVars, libVars, renderVars, fs, navVars, tocVars>>

\* lines 343-371: any other child: the three current lists stay empty
ChildWithoutConfig ==
    /\ main_pc = "children"
    /\ children_done < MaxChildren
    /\ total_broken_files' = total_broken_files \o <<>>
    /\ total_broken_packages' = total_broken_packages \o <<>>
    /\ total_broken_libs' = total_broken_libs \o <<>>
    /\ children_done' = children_done + 1
    /\ UNCHANGED <<main_pc, dirs_done, output_dir_exists, failure_seen, toc_created,
                   exit_status, cfgVars, docsVars, libVars, renderVars, fs, navVars, tocVars>>

\* line 343: the listing of the resources dir is exhausted
LeaveResourcesDir ==
    /\ main_pc = "children"
    /\ main_pc' = "dirs"
    /\ dirs_done' = dirs_done + 1
    /\ UNCHANGED <<children_done, total_broken_files, total_broken_packages,
                   total_broken_libs, output_dir_exists, failure_seen, toc_created,
                   exit_status, cfgVars, docsVars, libVars, renderVars, fs, navVars, tocVars>>

\* lines 373-418: all resources dirs (at least one) are processed
Finish ==
    /\ main_pc = "dirs"
    /\ dirs_done >= 1
    /\ toc_created' = output_dir_exists
    /\ exit_status' = ExitStatus(total_broken_files, total_broken_packages,
                                 total_broken_libs, output_dir_exists)
    /\ main_pc' = "exited"
    /\ UNCHANGED <<dirs_done, children_done, total_broken_files, total_broken_packages,
                   total_broken_libs, output_dir_exists, failure_seen,
                   cfgVars, docsVars, libVars, renderVars, fs, navVars, tocVars>>

NextMain ==
    \/ RemoveOutputDir
    \/ EnterResourcesDir
    \/ ChildWithConfig
    \/ ChildWithoutConfig
    \/ LeaveResourcesDir
    \/ Finish

SpecMain == InitMain /\ [][NextMain]_vars

----------------------------------------------------------------------------
(* C4 *)

\* C4: main ends with status 1 when a failure was recorded in any category
\* or the output directory does not exist after the last resources dir, and
\* with status 0 otherwise; no status is set before all dirs are processed.
C4_ExitStatus ==
    /\ main_pc = "exited" =>
          exit_status = (IF failure_seen \/ ~output_dir_exists THEN 1 ELSE 0)
    /\ main_pc # "exited" => exit_status = -1

\* two resources dirs without a failure and without an output directory: status 1
C4_Witness ==
    /\ main_pc = "exited"
    /\ dirs_done = 2
    /\ ~failure_seen
    /\ ~output_dir_exists
    /\ ~toc_created
    /\ exit_status = 1

----------------------------------------------------------------------------
(* toc and homepage *)

\* str.replace(old, new): the occurrences of old, leftmost first, not overlapping
RECURSIVE Replace(_, _, _)
Replace(s, old, new) ==
    IF Len(s) < Len(old) THEN s
    ELSE IF SubSeq(s, 1, Len(old)) = old
         THEN new \o Replace(SubSeq(s, Len(old) + 1, Len(s)), old, new)
         ELSE <<Head(s)>> \o Replace(Tail(s), old, new)

\* the result of a call that raised
Raised == [ok |-> FALSE, text |-> <<>>]

Returned(text) == [ok |-> TRUE, text |-> text]

\* text in front of the result of the rest, an exception in the rest staying one
Prepend(text, rest) == IF rest.ok THEN Returned(text \o rest.text) ELSE Raised

\* str.format(*args) from the given automatic field number on: "{{" and "}}"
\* are braces, "{}" is the next positional value (IndexError without one), a
\* single "}", an unclosed "{" and a field with a name the call has no value
\* for raise
RECURSIVE FormatFrom(_, _, _)
FormatFrom(s, args, auto) ==
    IF s = <<>> THEN Returned(<<>>)
    ELSE IF Head(s) = "{"
         THEN IF Len(s) >= 2 /\ s[2] = "{"
              THEN Prepend(<<"{">>, FormatFrom(SubSeq(s, 3, Len(s)), args, auto))
              ELSE IF Len(s) >= 2 /\ s[2] = "}"
                   THEN IF auto <= Len(args)
                        THEN Prepend(<<args[auto]>>,
                                     FormatFrom(SubSeq(s, 3, Len(s)), args, auto + 1))
                        ELSE Raised
                   ELSE Raised
         ELSE IF Head(s) = "}"
              THEN IF Len(s) >= 2 /\ s[2] = "}"
                   THEN Prepend(<<"}">>, FormatFrom(SubSeq(s, 3, Len(s)), args, auto))
                   ELSE Raised
              ELSE Prepend(<<Head(s)>>, FormatFrom(Tail(s), args, auto))

\* str.format(*args)
Format(s, args) == FormatFrom(s, args, 1)

\* lines 29-36
Toc(template, links, timestamp, home_page_path) ==
    LET doubled_open == Replace(template, <<"{">>, <<"{", "{">>)
        doubled == Replace(doubled_open, <<"}">>, <<"}", "}">>)
        html_with_escaped_braces == Replace(doubled, <<"{", "{", "}", "}">>, <<"{", "}">>)
    IN Format(html_with_escaped_braces, <<home_page_path, links, timestamp>>)

\* line 49
Homepage(template, timestamp) == Format(template, <<timestamp>>)

\* the characters of a template: braces and text
TemplateChars == {"{", "}", "a"}

\* the values: each is one element of the rendered text
TheLinks == "<links>"
TheTimestamp == "<timestamp>"
TheHomePagePath == "<home_page_path>"

InitRender ==
    /\ html_template \in BSeq(TemplateChars, MaxTemplate)
    /\ render_op = "none"
    /\ rendered = Raised
    /\ IdleConfig
    /\ IdleDocs
    /\ IdleLib
    /\ IdleMain
    /\ fs = {}
    /\ IdleNav
    /\ IdleToc

\* toc(links, timestamp, home_page_path, template_file)
RenderToc ==
    /\ render_op = "none"
    /\ rendered' = Toc(html_template, TheLinks, TheTimestamp, TheHomePagePath)
    /\ render_op' = "toc"
    /\ UNCHANGED <<html_template, cfgVars, docsVars, libVars, mainVars, fs, navVars, tocVars>>

\* homepage(timestamp, template_file)
RenderHomepage ==
    /\ render_op = "none"
    /\ rendered' = Homepage(html_template, TheTimestamp)
    /\ render_op' = "homepage"
    /\ UNCHANGED <<html_template, cfgVars, docsVars, libVars, mainVars, fs, navVars, tocVars>>

NextRender == RenderToc \/ RenderHomepage

SpecRender == InitRender /\ [][NextRender]_vars

----------------------------------------------------------------------------
(* C7 *)

\* the number of substitution slots "{}" of a template
RECURSIVE Slots(_)
Slots(s) ==
    IF Len(s) < 2 THEN 0
    ELSE IF s[1] = "{" /\ s[2] = "}" THEN 1 + Slots(SubSeq(s, 3, Len(s)))
    ELSE Slots(Tail(s))

\* the template with its slots filled in order and every other character kept
RECURSIVE Filled(_, _)
Filled(s, values) ==
    IF s = <<>> THEN <<>>
    ELSE IF Len(s) >= 2 /\ s[1] = "{" /\ s[2] = "}"
         THEN <<Head(values)>> \o Filled(SubSeq(s, 3, Len(s)), Tail(values))
         ELSE <<Head(s)>> \o Filled(Tail(s), values)

\* C7, toc: a template with at most three slots renders without an error,
\* the slots filled with home page path, links, timestamp, all else verbatim.
C7_TocVerbatim ==
    render_op = "toc" /\ Slots(html_template) <= 3 =>
        rendered = Returned(Filled(html_template,
                                   <<TheHomePagePath, TheLinks, TheTimestamp>>))

\* C7: both operations render every brace outside a slot verbatim and never
\* fail because of one.
C7_BothVerbatim ==
    /\ C7_TocVerbatim
    /\ render_op = "homepage" /\ Slots(html_template) <= 1 =>
          rendered = Returned(Filled(html_template, <<TheTimestamp>>))

----------------------------------------------------------------------------
(* The directory tree below the output directory *)

\* fs is the set of entries below the output directory: path is the
\* sequence of names from the output directory down, dir tells a directory

NameSrc == <<"s", "r", "c">>
NameA == <<"a", ".", "h", "t", "m", "l">>
NameB == <<"b", ".", "h", "t", "m", "l">>
NameC == <<"c", ".", "h", "t", "m", "l">>
NameE == <<"e", ".", "h", "t", "m", "l">>
NameX == <<"x", ".", "h", "t", "m", "l">>
NameN == <<"n", ".", "t", "x", "t">>
NameSub == <<"s", "u", "b">>
NameDeep == <<"d", "e", "e", "p">>
NameR == <<"r">>
NameDirHtml == <<"d", ".", "h", "t", "m", "l">>
NameHomepage == <<"h", "o", "m", "e", "p", "a", "g", "e", ".", "h", "t", "m", "l">>
NameToc == <<"k", "e", "y", "w", "o", "r", "d", "_", "d", "o", "c", "s", ".", "h", "t", "m", "l">>

\* os.listdir lists the names of a directory in this order
ListingOrder ==
    <<NameR, NameSub, NameA, NameN, NameDirHtml, NameDeep, NameB, NameC, NameE, NameX,
      NameHomepage, NameToc, NameSrc>>

File(path) == [path |-> path, dir |-> FALSE]

Dir(path) == [path |-> path, dir |-> TRUE]

\* every entry but the top-level ones has its parent directory in the tree
Closed(tree) ==
    \A e \in tree : Len(e.path) > 1 => Dir(SubSeq(e.path, 1, Len(e.path) - 1)) \in tree

\* os.listdir(folder)
ListDir(tree, folder) ==
    SelectSeq(ListingOrder, LAMBDA n : \E e \in tree : e.path = Append(folder, n))

\* os.path.isdir(path)
IsDir(tree, path) == Dir(path) \in tree

\* os.path.splitext(name)[0]: up to the last dot, unless only dots precede it
SplitExtHead(name) ==
    LET i == LastIndexOf(name, ".") IN
    IF i > 1 /\ \E j \in 1..(i - 1) : name[j] # "." THEN SubSeq(name, 1, i - 1) ELSE name

\* the names of a path joined by "/"
RECURSIVE JoinAll(_)
JoinAll(path) ==
    IF path = <<>> THEN <<>>
    ELSE IF Len(path) = 1 THEN Head(path)
    ELSE Head(path) \o <<"/">> \o JoinAll(Tail(path))

\* os.path.relpath(item_path, base_dir_path), for an item below the base
RelPathOf(item_path, base_dir_path) ==
    JoinAll(SubSeq(item_path, Len(base_dir_path) + 1, Len(item_path)))

\* add_files_from_folder: the markup as the sequence of its elements
RECURSIVE AddFilesFromFolder(_, _, _, _)
RECURSIVE ItemsMarkup(_, _, _, _)
\* lines 117-129: the loop over the listing
ItemsMarkup(tree, folder, base_dir_path, items) ==
    IF items = <<>> THEN <<>>
    ELSE LET item == Head(items)
             item_path == Append(folder, item)
             here == IF EndsWith(item, DotHtml)
                     THEN <<[tag |-> "a",
                             href |-> RelPathOf(item_path, base_dir_path),
                             label |-> SplitExtHead(item)]>>
                     ELSE IF IsDir(tree, item_path)
                          THEN AddFilesFromFolder(tree, item_path, base_dir_path, FALSE)
                          ELSE <<>>
         IN here \o ItemsMarkup(tree, folder, base_dir_path, Tail(items))

\* lines 107-135
AddFilesFromFolder(tree, folder, base_dir_path, root) ==
    (IF ~root
     THEN <<[tag |-> "button", href |-> <<>>, label |-> folder[Len(folder)]],
            [tag |-> "div", href |-> <<>>, label |-> <<>>]>>
     ELSE <<>>)
    \o ItemsMarkup(tree, folder, base_dir_path, ListDir(tree, folder))
    \o (IF ~root THEN <<[tag |-> "/div", href |-> <<>>, label |-> <<>>]>> ELSE <<>>)

\* the entries a tree below src is drawn from
NavCandidates ==
    {File(<<NameSrc, NameA>>), File(<<NameSrc, NameN>>),
     Dir(<<NameSrc, NameSub>>), File(<<NameSrc, NameSub, NameB>>),
     Dir(<<NameSrc, NameSub, NameDeep>>), File(<<NameSrc, NameSub, NameDeep, NameE>>),
     Dir(<<NameSrc, NameDirHtml>>), File(<<NameSrc, NameDirHtml, NameC>>)}

InitNav ==
    /\ \E chosen \in SUBSET NavCandidates : fs = {Dir(<<NameSrc>>)} \cup chosen
    /\ Closed(fs)
    /\ nav_pc = "start"
    /\ result_str = <<>>
    /\ IdleConfig
    /\ IdleDocs
    /\ IdleLib
    /\ IdleMain
    /\ IdleRender
    /\ IdleToc

\* add_files_from_folder(src_subdir, html_docs_dir)
Assemble ==
    /\ nav_pc = "start"
    /\ result_str' = AddFilesFromFolder(fs, <<NameSrc>>, <<>>, TRUE)
    /\ nav_pc' = "done"
    /\ UNCHANGED <<fs, cfgVars, docsVars, libVars, mainVars, renderVars, tocVars>>

NextNav == Assemble

SpecNav == InitNav /\ [][NextNav]_vars

----------------------------------------------------------------------------
(* C8 *)

HtmlFiles == {e \in fs : ~e.dir /\ EndsWith(e.path[Len(e.path)], DotHtml)}

NonRootDirs == {e \in fs : e.dir /\ e.path # <<NameSrc>>}

Elements(tag) == {i \in DOMAIN result_str : result_str[i].tag = tag}

\* the labels of the wrappers that are open after the first n elements
RECURSIVE OpenWrappers(_)
OpenWrappers(n) ==
    IF n = 0 THEN <<>>
    ELSE LET before == OpenWrappers(n - 1) IN
         CASE result_str[n].tag = "button" -> Append(before, result_str[n].label)
           [] result_str[n].tag = "/div" -> SubSeq(before, 1, Len(before) - 1)
           [] OTHER -> before

\* the name of a file without its last five characters, ".html"
WithoutDotHtml(name) == SubSeq(name, 1, Len(name) - 5)

\* C8: one link per .html file of the tree, with the path from the base as
\* href and the name without ".html" as label, nested in the wrappers of
\* exactly its directories below the root; one wrapper per directory below
\* the root and none for the root.
C8_TreeNesting ==
    nav_pc = "done" =>
        /\ Cardinality(Elements("a")) = Cardinality(HtmlFiles)
        /\ \A e \in HtmlFiles :
              \E i \in Elements("a") :
                 /\ result_str[i].href = JoinAll(e.path)
                 /\ result_str[i].label = WithoutDotHtml(e.path[Len(e.path)])
                 /\ OpenWrappers(i) = SubSeq(e.path, 2, Len(e.path) - 1)
        /\ Cardinality(Elements("button")) = Cardinality(NonRootDirs)
        /\ \A d \in NonRootDirs :
              \E i \in Elements("button") : result_str[i].label = d.path[Len(d.path)]
        /\ OpenWrappers(Len(result_str)) = <<>>

----------------------------------------------------------------------------
(* create_toc *)

\* the names of the top-level entries of the output directory
TopLevel(tree) == {e.path[1] : e \in {x \in tree : Len(x.path) = 1}}

\* shutil.move(html_docs_dir/doc_element, src_subdir/doc_element): the
\* entry and all below it get src in front of their path
Move(tree, doc_element) ==
    {IF e.path[1] = doc_element
     THEN [e EXCEPT !.path = <<NameSrc>> \o @]
     ELSE e : e \in tree}

\* the entries an output directory is drawn from: generated fragments, and
\* a src directory when a resources dir of that name was documented
TocCandidates ==
    {Dir(<<NameR>>), File(<<NameR, NameA>>), File(<<NameX>>),
     Dir(<<NameSub>>), File(<<NameSub, NameB>>),
     Dir(<<NameSrc>>), File(<<NameSrc, NameC>>), File(<<NameSrc, NameHomepage>>)}

InitToc ==
    /\ fs \in SUBSET TocCandidates
    /\ Closed(fs)
    /\ toc_pc = "makedirs"
    /\ all_docs = <<>>
    /\ doc_idx = 0
    /\ doc_files_links = <<>>
    /\ steps = <<>>
    /\ IdleConfig
    /\ IdleDocs
    /\ IdleLib
    /\ IdleMain
    /\ IdleRender
    /\ IdleNav

\* lines 262-263: os.makedirs(src_subdir, exist_ok=True)
MakeSrcDir ==
    /\ toc_pc = "makedirs"
    /\ fs' = fs \cup {Dir(<<NameSrc>>)}
    /\ steps' = Append(steps, "makedirs")
    /\ toc_pc' = "listdir"
    /\ UNCHANGED <<all_docs, doc_idx, doc_files_links,
                   cfgVars, docsVars, libVars, mainVars, renderVars, navVars>>

\* line 264: all_docs = os.listdir(html_docs_dir)
ListDocs ==
    /\ toc_pc = "listdir"
    /\ all_docs' = ListDir(fs, <<>>)
    /\ doc_idx' = 1
    /\ toc_pc' = "move"
    /\ UNCHANGED <<fs, doc_files_links, steps,
                   cfgVars, docsVars, libVars, mainVars, renderVars, navVars>>

\* lines 265-267: src itself is skipped
SkipSrc ==
    /\ toc_pc = "move"
    /\ doc_idx <= Len(all_docs)
    /\ all_docs[doc_idx] = NameSrc
    /\ doc_idx' = doc_idx + 1
    /\ UNCHANGED <<fs, toc_pc, all_docs, doc_files_links, steps,
                   cfgVars, docsVars, libVars, mainVars, renderVars, navVars>>

\* lines 268-270: one entry is moved into src
MoveDoc ==
    /\ toc_pc = "move"
    /\ doc_idx <= Len(all_docs)
    /\ all_docs[doc_idx] # NameSrc
    /\ fs' = Move(fs, all_docs[doc_idx])
    /\ steps' = Append(steps, "move")
    /\ doc_idx' = doc_idx + 1
    /\ UNCHANGED <<toc_pc, all_docs, doc_files_links,
                   cfgVars, docsVars, libVars, mainVars, renderVars, navVars>>

\* WalkSrc with the homepage already written when src is walked
WalkSrcAfterHomepage ==
    /\ toc_pc = "move"
    /\ doc_idx > Len(all_docs)
    /\ fs' = fs \cup {File(<<NameSrc, NameHomepage>>)}
    /\ doc_files_links' = AddFilesFromFolder(fs', <<NameSrc>>, <<>>, TRUE)
    /\ steps' = steps \o <<"homepage", "walk">>
    /\ toc_pc' = "homepage"
    /\ UNCHANGED <<all_docs, doc_idx,
                   cfgVars, docsVars, libVars, mainVars, renderVars, navVars>>

\* lines 273-275: the tree assembler walks src
WalkSrc ==
    /\ toc_pc = "move"
    /\ doc_idx > Len(all_docs)
    /\ doc_files_links' = AddFilesFromFolder(fs, <<NameSrc>>, <<>>, TRUE)
    /\ steps' = Append(steps, "walk")
    /\ toc_pc' = "homepage"
    /\ UNCHANGED <<fs, all_docs, doc_idx,
                   cfgVars, docsVars, libVars, mainVars, renderVars, navVars>>

\* lines 276-277: the homepage is written into src
WriteHomepage ==
    /\ toc_pc = "homepage"
    /\ fs' = fs \cup {File(<<NameSrc, NameHomepage>>)}
    /\ steps' = Append(steps, "homepage")
    /\ toc_pc' = "toc"
    /\ UNCHANGED <<all_docs, doc_idx, doc_files_links,
                   cfgVars, docsVars, libVars, mainVars, renderVars, navVars>>

\* lines 280-289: the TOC is written into the output directory
WriteToc ==
    /\ toc_pc = "toc"
    /\ fs' = fs \cup {File(<<NameToc>>)}
    /\ steps' = Append(steps, "toc")
    /\ toc_pc' = "done"
    /\ UNCHANGED <<all_docs, doc_idx, doc_files_links,
                   cfgVars, docsVars, libVars, mainVars, renderVars, navVars>>

NextToc ==
    \/ MakeSrcDir
    \/ ListDocs
    \/ SkipSrc
    \/ MoveDoc
    \/ WalkSrc
    \/ WriteHomepage
    \/ WriteToc

SpecToc == InitToc /\ [][NextToc]_vars

----------------------------------------------------------------------------
(* C9 *)

Position(step) == {i \in DOMAIN steps : steps[i] = step}

Before(first, second) ==
    \A j \in Position(second) : \E i \in Position(first) : i < j

HomepageLinked ==
    \E i \in DOMAIN doc_files_links :
        doc_files_links[i].href = JoinAll(<<NameSrc, NameHomepage>>)

\* C9 as stated: src is created, then everything is moved, then the
\* homepage is written, then src is walked, then the TOC is written.
C9_HomepageThenWalk ==
    /\ Before("makedirs", "move")
    /\ \A i \in Position("move") : \A j \in Position("homepage") : i < j
    /\ Before("homepage", "walk")
    /\ Before("walk", "toc")

\* C9 as amended: src is created, then everything but src is moved into
\* it, then src is walked, then the homepage is written, then the TOC; when
\* the walk is done no fragment is left outside src, and the homepage this
\* run writes is not among the links.
C9_WalkThenHomepage ==
    /\ Before("makedirs", "move")
    /\ \A i \in Position("move") : \A j \in Position("walk") : i < j
    /\ Before("walk", "homepage")
    /\ Before("homepage", "toc")
    /\ Position("walk") # {} => TopLevel(fs) \subseteq {NameSrc, NameToc}
    /\ toc_pc = "homepage" =>
          /\ doc_files_links = AddFilesFromFolder(fs, <<NameSrc>>, <<>>, TRUE)
          /\ File(<<NameToc>>) \notin fs

\* two fragments were moved into a fresh src, and the written homepage is
\* not among the links
C9_Witness ==
    /\ toc_pc = "done"
    /\ steps = <<"makedirs", "move", "move", "walk", "homepage", "toc">>
    /\ File(<<NameSrc, NameHomepage>>) \in fs
    /\ File(<<NameSrc, NameR, NameA>>) \in fs
    /\ ~HomepageLinked

====
